---- MODULE Spec2Model ----
(***************************************************************************)
(* Day 19 of jackson-nestelroad/advent-of-code-2021: registration of       *)
(* scanner beacon sets into one global map (src/days/day19.rs).            *)
(*                                                                         *)
(* A Point is a tuple <<x, y, z>>.  A Transformation is a tuple            *)
(* <<axis, sign>> with axis in 0..2 (X, Y, Z) and sign in {1, -1}; a       *)
(* TransformationMatrix is a tuple of three Transformations.  A scanner    *)
(* with distances is a record [beacons, distances] where distances maps a  *)
(* distance to the bag (point -> multiplicity) of the Vec<Point> the code  *)
(* keeps: the order of that Vec comes from hash-set iteration and is not   *)
(* modelled.  The GlobalMap is a function from Point to such records.      *)
(* Coordinates are i32 in the code; the inputs used here stay far from     *)
(* its limits, so the arithmetic is that of the integers.                  *)
(***************************************************************************)
EXTENDS Integers, Sequences, FiniteSets, TLC

\* The build (from_scanners): the parsed input, the scanners not yet placed,
\* the GlobalMap, the for loop's index and the position in the function.
VARIABLES input, pending, map, i, pc

\* One enumeration of BeaconOrientationIterator: its state (i, j, k), the
\* matrices next() has returned so far and what the last call returned.
VARIABLES iter, yielded, item

\* A function applied on its own: its arguments and its result.
VARIABLES args, out

\* A record of the run, kept beside the program's state and read by no
\* action: for each pending scanner its index in the input (ids), the map,
\* the ids pending and the ids attempted so far of the current pass of the
\* while loop, the number of completed passes up to the first pass that
\* placed no scanner, and whether such a pass has happened.
VARIABLES ids, snapshot, started, attempted, passes, stalled

hist == <<ids, snapshot, started, attempted, passes, stalled>>

build == <<input, pending, map, i, pc, hist>>

unit == <<iter, yielded, item, args, out>>

vars == <<input, pending, map, i, pc, ids, snapshot, started, attempted, passes,
          stalled, iter, yielded, item, args, out>>

----------------------------------------------------------------------------
(* Point arithmetic *)

Abs(x) == IF x < 0 THEN -x ELSE x

\* A distance that sums the differences without their absolute values.
DistanceSigned(a, b) == (a[1] - b[1]) + (a[2] - b[2]) + (a[3] - b[3])

Distance(a, b) == Abs(a[1] - b[1]) + Abs(a[2] - b[2]) + Abs(a[3] - b[3])

PointAdd(a, b) == <<a[1] + b[1], a[2] + b[2], a[3] + b[3]>>

PointSub(a, b) == <<a[1] - b[1], a[2] - b[2], a[3] - b[3]>>

Origin == <<0, 0, 0>>

----------------------------------------------------------------------------
(* Transformations and the orientation iterator *)

SignMul(s, t) == IF s = t THEN 1 ELSE -1

TransformationMulSign(t, s) == <<t[1], SignMul(t[2], s)>>

TransformationMulPoint(t, p) == IF t[2] = 1 THEN p[t[1] + 1] ELSE -p[t[1] + 1]

MatrixMulPoint(m, p) ==
    <<TransformationMulPoint(m[1], p),
      TransformationMulPoint(m[2], p),
      TransformationMulPoint(m[3], p)>>

IDENTITY == <<(<<0, 1>>), (<<1, 1>>), (<<2, 1>>)>>

IteratorNew == [i |-> 0, j |-> 1, k |-> 0]

IteratorDone(it) == it.i = 3

\* An advance_index that does not skip j = i.
AdvanceIndexNoSkip(it) ==
    LET j1 == it.j + 1
    IN  IF j1 >= 3 THEN [it EXCEPT !.i = it.i + 1, !.j = 0]
        ELSE [it EXCEPT !.j = j1]

RECURSIVE AdvanceIndex(_)
AdvanceIndex(it) ==
    LET j1 == it.j + 1
    IN  IF j1 = it.i THEN AdvanceIndex([it EXCEPT !.j = j1])
        ELSE IF j1 >= 3 THEN [it EXCEPT !.i = it.i + 1, !.j = 0]
        ELSE [it EXCEPT !.j = j1]

\* An advance_state with three sign patterns instead of four.
AdvanceStateShort(it) ==
    LET k1 == it.k + 1
    IN  IF k1 >= 3 THEN AdvanceIndex([it EXCEPT !.k = 0])
        ELSE [it EXCEPT !.k = k1]

AdvanceState(it) ==
    LET k1 == it.k + 1
    IN  IF k1 >= 4 THEN AdvanceIndex([it EXCEPT !.k = 0])
        ELSE [it EXCEPT !.k = k1]

\* A third row that is never negated: half of the matrices are mirror images.
IteratorMatrixMirror(it) ==
    LET first  == IDENTITY[it.i + 1]
        second == IDENTITY[it.j + 1]
        next_i == (it.i + 1) % 3
        next_j == (it.j + 1) % 3
        third  == IF next_i = it.j THEN IDENTITY[next_j + 1]
                  ELSE IDENTITY[next_i + 1]
        neg(t) == TransformationMulSign(t, -1)
    IN  CASE it.k = 0 -> <<first, second, third>>
          [] it.k = 1 -> <<first, neg(second), neg(third)>>
          [] it.k = 2 -> <<neg(first), neg(second), third>>
          [] it.k = 3 -> <<neg(first), second, neg(third)>>

\* The matrix next() builds from the state (i, j, k), before advancing.
IteratorMatrix(it) ==
    LET first  == IDENTITY[it.i + 1]
        second == IDENTITY[it.j + 1]
        next_i == (it.i + 1) % 3
        next_j == (it.j + 1) % 3
        third  == IF next_i = it.j THEN IDENTITY[next_j + 1]
                  ELSE TransformationMulSign(IDENTITY[next_i + 1], -1)
        neg(t) == TransformationMulSign(t, -1)
    IN  CASE it.k = 0 -> <<first, second, third>>
          [] it.k = 1 -> <<first, neg(second), neg(third)>>
          [] it.k = 2 -> <<neg(first), neg(second), third>>
          [] it.k = 3 -> <<neg(first), second, neg(third)>>

\* The sequence of matrices one enumeration yields, in the order it yields them.
RECURSIVE IteratorCollect(_)
IteratorCollect(it) ==
    IF IteratorDone(it) THEN <<>>
    ELSE <<IteratorMatrix(it)>> \o IteratorCollect(AdvanceState(it))

Rotations == IteratorCollect(IteratorNew)

----------------------------------------------------------------------------
(* Scanners and the distance index *)

\* self.beacons.iter().tuple_combinations(): every unordered pair of different
\* beacons, once.
TupleCombinations(beacons) == {{a, b} : a, b \in beacons} \ {{a} : a \in beacons}

PairDistance(pair) ==
    LET a == CHOOSE x \in pair : TRUE
        b == CHOOSE y \in pair : y # a
    IN  Distance(a, b)

\* An index that pushes only the first beacon of every pair.
IntoDistancesOneEnd(beacons) ==
    LET pairs == TupleCombinations(beacons)
        dist  == [pair \in pairs |-> PairDistance(pair)]
        keys  == {dist[pair] : pair \in pairs}
        head(pair) == CHOOSE x \in pair : TRUE
    IN  [beacons   |-> beacons,
         distances |-> [d \in keys |->
                          LET at == {pair \in pairs : dist[pair] = d}
                          IN  [p \in {head(pair) : pair \in at} |->
                                  Cardinality({pair \in at : p = head(pair)})]]]

\* Both ends of every pair are pushed under the pair's distance: a beacon
\* occurs under d once per pair at distance d it belongs to.
IntoDistances(beacons) ==
    LET pairs == TupleCombinations(beacons)
        dist  == [pair \in pairs |-> PairDistance(pair)]
        keys  == {dist[pair] : pair \in pairs}
    IN  [beacons   |-> beacons,
         distances |-> [d \in keys |->
                          LET at == {pair \in pairs : dist[pair] = d}
                          IN  [p \in UNION at |-> Cardinality({pair \in at : p \in pair})]]]

Factorial(n) == IF n = 0 THEN 1 ELSE LET f[k \in 1..n] == IF k = 1 THEN 1 ELSE k * f[k - 1] IN f[n]

Combinations(n, r) ==
    LET prod[k \in (n - r)..n] == IF k = n - r THEN 1 ELSE k * prod[k - 1]
    IN  prod[n] \div Factorial(r)

DESIRED_OVERLAPS == 12

DISTANCE_OVERLAPS == Combinations(DESIRED_OVERLAPS, 2)

----------------------------------------------------------------------------
(* Input scanners the model draws from *)

\* the first twelve beacons of a 14-beacon world whose 91 pairwise distances are
\* all different, seen from the origin in the global orientation
ScanA ==
    {
     <<-2, 18, 0>>, <<9, 28, -5>>, <<26, 18, 27>>, <<-16, -19, 12>>,
     <<7, 7, 12>>, <<-14, -21, -23>>, <<16, -23, -5>>, <<14, 16, 19>>,
     <<-25, -18, 1>>, <<-29, -27, -29>>, <<-30, -21, -26>>, <<14, 26, 22>> }

\* all 14 beacons of that world, seen from (5,-40,13) in another orientation
ScanB ==
    {
     <<7, -58, -13>>, <<-4, -68, -18>>, <<-21, -58, 14>>, <<21, -21, -1>>,
     <<-2, -47, -1>>, <<19, -19, -36>>, <<-11, -17, -18>>, <<-9, -56, 6>>,
     <<30, -22, -12>>, <<34, -13, -42>>, <<35, -19, -39>>, <<-9, -66, 9>>,
     <<35, -10, -42>>, <<-7, -56, 15>> }

\* the last twelve beacons of that world, seen from (-33,7,20) in a third
\* orientation: it shares 12 beacons with ScanB and only 10 with ScanA
ScanC ==
    {
     <<59, 7, -11>>, <<17, -8, 26>>, <<40, -8, 0>>, <<19, -43, 28>>,
     <<49, -25, 30>>, <<47, -1, -9>>, <<8, -19, 25>>, <<4, -49, 34>>,
     <<3, -46, 28>>, <<47, 2, -19>>, <<3, -49, 37>>, <<45, 8, -9>> }

\* twelve evenly spaced beacons on a line: only 11 different distances
ScanL ==
    {
     <<0, 50, 0>>, <<1, 50, 0>>, <<2, 50, 0>>, <<3, 50, 0>>,
     <<4, 50, 0>>, <<5, 50, 0>>, <<6, 50, 0>>, <<7, 50, 0>>,
     <<8, 50, 0>>, <<9, 50, 0>>, <<10, 50, 0>>, <<11, 50, 0>> }

\* twelve beacons on a line at the marks of a Golomb ruler: 66 different distances
ScanG ==
    {
     <<0, 0, 0>>, <<2, 0, 0>>, <<6, 0, 0>>, <<24, 0, 0>>,
     <<29, 0, 0>>, <<40, 0, 0>>, <<43, 0, 0>>, <<55, 0, 0>>,
     <<68, 0, 0>>, <<75, 0, 0>>, <<76, 0, 0>>, <<85, 0, 0>> }

\* ScanG and one more beacon off the line
ScanGe ==
    {
     <<0, 0, 0>>, <<2, 0, 0>>, <<6, 0, 0>>, <<24, 0, 0>>,
     <<29, 0, 0>>, <<40, 0, 0>>, <<43, 0, 0>>, <<55, 0, 0>>,
     <<68, 0, 0>>, <<75, 0, 0>>, <<76, 0, 0>>, <<85, 0, 0>>,
     <<1, 3, 0>> }

\* The scanners of one input come from one data set.
DataSets == {{ScanA, ScanB, ScanC}, {ScanG, ScanGe, ScanL}}

MaxScanners == 3

\* parse_input can produce any Vec<Scanner>, the empty one included.
Inputs == UNION {UNION {[1..n -> D] : n \in 0..MaxScanners} : D \in DataSets}

----------------------------------------------------------------------------
(* GlobalMap::merge_scanner *)

\* Distances that overlap between the two scanners.
OverlappingDistances(known, scanner) ==
    DOMAIN known.distances \cap DOMAIN scanner.distances

\* Differences taken from the unknown beacons as they are, not transformed.
PotentialTranslationsUnrotated(known, scanner, matrix, overlapping) ==
    UNION {{PointSub(kb, ub) :
               kb \in DOMAIN known.distances[d], ub \in DOMAIN scanner.distances[d]} :
           d \in overlapping}

\* known_beacon - unknown_beacon over the points the two indexes hold under
\* each overlapping distance, the unknown ones transformed first.
PotentialTranslations(known, scanner, matrix, overlapping) ==
    UNION {{PointSub(kb, MatrixMulPoint(matrix, ub)) :
               kb \in DOMAIN known.distances[d], ub \in DOMAIN scanner.distances[d]} :
           d \in overlapping}

\* &transformation_matrix * &beacon over the whole beacon set: the part of the
\* all_oriented_beacons map that does not depend on delta.
TransformedBeacons(scanner, matrix) ==
    {MatrixMulPoint(matrix, b) : b \in scanner.beacons}

\* Beacons that are rotated and never moved.
AllOrientedBeaconsNoDelta(transformed, delta) == transformed

\* ... + &delta, collected into a set.
AllOrientedBeacons(transformed, delta) == {PointAdd(b, delta) : b \in transformed}

\* A count that lost its filter: every oriented beacon is counted.
OverlapCountUnfiltered(known, oriented) == Cardinality(oriented)

OverlapCount(known, oriented) == Cardinality({b \in oriented : b \in known.beacons})

Accepted(known, oriented) == OverlapCount(known, oriented) >= DESIRED_OVERLAPS

\* The translations that pass the overlap test for one matrix.
AcceptedTranslations(known, scanner, matrix, overlapping) ==
    LET transformed == TransformedBeacons(scanner, matrix)
    IN  {delta \in PotentialTranslations(known, scanner, matrix, overlapping) :
            Accepted(known, AllOrientedBeacons(transformed, delta))}

\* The matrices are tried in the iterator's order and the first one with an
\* accepted translation ends the search; which of its accepted translations
\* comes first depends on hash iteration order, so each of them may be taken.
\* The result is a set of <<index into Rotations, delta>>.
RECURSIVE FirstAccepted(_, _, _, _)
FirstAccepted(known, scanner, overlapping, r) ==
    IF r > Len(Rotations) THEN {}
    ELSE LET hits == AcceptedTranslations(known, scanner, Rotations[r], overlapping)
         IN  IF hits # {} THEN {<<r, delta>> : delta \in hits}
             ELSE FirstAccepted(known, scanner, overlapping, r + 1)

\* A prefilter that lets every known scanner through.
PassesPrefilterAlways(overlapping) == TRUE

PassesPrefilter(overlapping) == Cardinality(overlapping) >= DISTANCE_OVERLAPS

KnownScannerHits(known, scanner) ==
    LET overlapping == OverlappingDistances(known, scanner)
    IN  IF PassesPrefilter(overlapping)
        THEN FirstAccepted(known, scanner, overlapping, 1)
        ELSE {}

\* The known scanners are visited in hash iteration order and the first one
\* with a hit ends the search: each known scanner that has a hit may be it.
\* The result is a set of <<key of the known scanner, index, delta>>.
MergeHits(m, scanner) ==
    UNION {{<<key, h[1], h[2]>> : h \in KnownScannerHits(m[key], scanner)} :
           key \in DOMAIN m}

\* An insert that drops what the map held.
MapInsertAlone(m, key, value) == [p \in {key} |-> value]

\* FxHashMap::insert: a new key is added, the value under a present key is replaced.
MapInsert(m, key, value) ==
    [p \in DOMAIN m \cup {key} |-> IF p = key THEN value ELSE m[p]]

\* A merge that writes the oriented scanner under the origin.
MergeInsertAtOrigin(m, scanner, hit) ==
    MapInsert(m, Origin,
              IntoDistances(AllOrientedBeacons(
                  TransformedBeacons(scanner, Rotations[hit[2]]), hit[3])))

\* A merge that keeps only the beacons found in the known scanner.
MergeInsertOverlapOnly(m, scanner, hit) ==
    MapInsert(m, hit[3],
              IntoDistances(AllOrientedBeacons(
                  TransformedBeacons(scanner, Rotations[hit[2]]), hit[3])
                  \cap m[hit[1]].beacons))

MergeInsert(m, scanner, hit) ==
    MapInsert(m, hit[3],
              IntoDistances(AllOrientedBeacons(
                  TransformedBeacons(scanner, Rotations[hit[2]]), hit[3])))

\* The maps merge_scanner can leave when it returns true; empty when it
\* returns false (and then the map is left as it was).
MergeScanner(m, scanner) == {MergeInsert(m, scanner, hit) : hit \in MergeHits(m, scanner)}

Beacons(m) == UNION {m[key].beacons : key \in DOMAIN m}

Scanners(m) == DOMAIN m

----------------------------------------------------------------------------
(* GlobalMap::from_scanners *)

\* A removal that removes nothing.
SwapRemoveKeep(s, n) == s

\* Vec::swap_remove: the last element takes the place of the removed one.
SwapRemove(s, n) ==
    [k \in 1..(Len(s) - 1) |-> IF k = n THEN s[Len(s)] ELSE s[k]]

EmptyMap == [p \in {} |-> 0]

\* BeaconOrientationIterator::new() and no call of next() yet.
IterIdle ==
    /\ iter = IteratorNew
    /\ yielded = <<>>
    /\ item = [kind |-> "-", value |-> <<>>]

\* No iterator call made and no function applied on its own.
UnitIdle ==
    /\ IterIdle
    /\ args = <<>>
    /\ out = <<>>

\* Nothing recorded yet.
HistIdle ==
    /\ ids = <<>>
    /\ snapshot = EmptyMap
    /\ started = <<>>
    /\ attempted = <<>>
    /\ passes = 0
    /\ stalled = FALSE

Init ==
    /\ input \in Inputs
    /\ pending = <<>>
    /\ map = EmptyMap
    /\ i = 0
    /\ pc = "start"
    /\ HistIdle
    /\ UnitIdle

\* A start that returns the empty map for an empty input.
StartEmptyReturns ==
    /\ pc = "start"
    /\ IF input = <<>>
       THEN /\ pc' = "done"
            /\ UNCHANGED <<pending, map, ids>>
       ELSE /\ map' = MapInsert(EmptyMap, Origin, IntoDistances(input[1]))
            /\ pending' = [k \in 1..(Len(input) - 1) |-> IntoDistances(input[k + 1])]
            /\ ids' = [k \in 1..(Len(input) - 1) |-> k + 1]
            /\ pc' = "while"
    /\ UNCHANGED <<input, i, snapshot, started, attempted, passes, stalled, unit>>

\* A start that inserts the first scanner and also leaves it pending.
StartKeepFirst ==
    /\ pc = "start"
    /\ IF input = <<>>
       THEN /\ pc' = "panic"
            /\ UNCHANGED <<pending, map, ids>>
       ELSE /\ map' = MapInsert(EmptyMap, Origin, IntoDistances(input[1]))
            /\ pending' = [k \in 1..Len(input) |-> IntoDistances(input[k])]
            /\ ids' = [k \in 1..Len(input) |-> k]
            /\ pc' = "while"
    /\ UNCHANGED <<input, i, snapshot, started, attempted, passes, stalled, unit>>

\* into_distances of every scanner, GlobalMap::new, and the first scanner
\* inserted at the origin; scanners.remove(0) panics on an empty Vec.
Start ==
    /\ pc = "start"
    /\ IF input = <<>>
       THEN /\ pc' = "panic"
            /\ UNCHANGED <<pending, map, ids>>
       ELSE /\ map' = MapInsert(EmptyMap, Origin, IntoDistances(input[1]))
            /\ pending' = [k \in 1..(Len(input) - 1) |-> IntoDistances(input[k + 1])]
            /\ ids' = [k \in 1..(Len(input) - 1) |-> k + 1]
            /\ pc' = "while"
    /\ UNCHANGED <<input, i, snapshot, started, attempted, passes, stalled, unit>>

\* A loop that stops one scanner early.
WhileOffByOne ==
    /\ pc = "while"
    /\ IF Len(pending) <= 1
       THEN pc' = "done" /\ i' = i /\ UNCHANGED <<snapshot, started, attempted>>
       ELSE /\ pc' = "for" /\ i' = Len(pending)
            /\ snapshot' = map /\ started' = ids /\ attempted' = <<>>
    /\ UNCHANGED <<input, pending, map, ids, passes, stalled, unit>>

\* while !scanners.is_empty(): enter the for loop at the last index, or return.
While ==
    /\ pc = "while"
    /\ IF pending = <<>>
       THEN pc' = "done" /\ i' = i /\ UNCHANGED <<snapshot, started, attempted>>
       ELSE /\ pc' = "for" /\ i' = Len(pending)
            /\ snapshot' = map /\ started' = ids /\ attempted' = <<>>
    /\ UNCHANGED <<input, pending, map, ids, passes, stalled, unit>>

\* An iteration that, as a forward loop would, stays at its index after a
\* removal.
ForBodyStay ==
    /\ pc = "for"
    /\ i >= 1
    /\ LET results == MergeScanner(map, pending[i])
       IN  IF results = {}
           THEN /\ i' = i - 1
                /\ UNCHANGED <<map, pending, ids>>
           ELSE /\ map' \in results
                /\ pending' = SwapRemove(pending, i)
                /\ ids' = SwapRemove(ids, i)
                /\ i' = IF i <= Len(pending') THEN i ELSE i - 1
    /\ attempted' = Append(attempted, ids[i])
    /\ UNCHANGED <<input, pc, snapshot, started, passes, stalled, unit>>

\* An iteration that looks for a match in the map as it was when the pass
\* began, and inserts what it finds into the current map.
ForBodySnapshot ==
    /\ pc = "for"
    /\ i >= 1
    /\ LET results == {MergeInsert(map, pending[i], hit) :
                          hit \in MergeHits(snapshot, pending[i])}
       IN  IF results = {}
           THEN UNCHANGED <<map, pending, ids>>
           ELSE /\ map' \in results
                /\ pending' = SwapRemove(pending, i)
                /\ ids' = SwapRemove(ids, i)
    /\ i' = i - 1
    /\ attempted' = Append(attempted, ids[i])
    /\ UNCHANGED <<input, pc, snapshot, started, passes, stalled, unit>>

\* One iteration of for i in (0..scanners.len()).rev(); i here is the Rust
\* index plus one.
ForBody ==
    /\ pc = "for"
    /\ i >= 1
    /\ LET results == MergeScanner(map, pending[i])
       IN  IF results = {}
           THEN UNCHANGED <<map, pending, ids>>
           ELSE /\ map' \in results
                /\ pending' = SwapRemove(pending, i)
                /\ ids' = SwapRemove(ids, i)
    /\ i' = i - 1
    /\ attempted' = Append(attempted, ids[i])
    /\ UNCHANGED <<input, pc, snapshot, started, passes, stalled, unit>>

\* The range is exhausted: back to the while condition.
ForEnd ==
    /\ pc = "for"
    /\ i = 0
    /\ pc' = "while"
    /\ stalled' = (stalled \/ Len(ids) = Len(started))
    /\ passes' = IF stalled' THEN passes ELSE passes + 1
    /\ UNCHANGED <<input, pending, map, i, ids, snapshot, started, attempted, unit>>

Next == Start \/ While \/ ForBody \/ ForEnd

Spec == Init /\ [][Next]_vars

----------------------------------------------------------------------------
(* from_scanners as a function of its input: the maps it can return *)

\* The for loop from index n down: the <<map, pending>> it can end with.
RECURSIVE ForResults(_, _, _)
ForResults(m, pend, n) ==
    IF n = 0 THEN {<<m, pend>>}
    ELSE LET results == MergeScanner(m, pend[n])
         IN  IF results = {} THEN ForResults(m, pend, n - 1)
             ELSE UNION {ForResults(m2, SwapRemove(pend, n), n - 1) : m2 \in results}

\* The while loop.  A pass that removes nothing leaves map and pending as
\* they were, so every later pass repeats it: the loop returns no map.
RECURSIVE WhileResults(_, _)
WhileResults(m, pend) ==
    IF pend = <<>> THEN {m}
    ELSE UNION {IF Len(after[2]) = Len(pend) THEN {}
                ELSE WhileResults(after[1], after[2]) :
                after \in ForResults(m, pend, Len(pend))}

FromScanners(scanners) ==
    IF scanners = <<>> THEN {}
    ELSE WhileResults(MapInsert(EmptyMap, Origin, IntoDistances(scanners[1])),
                      [k \in 1..(Len(scanners) - 1) |-> IntoDistances(scanners[k + 1])])


----------------------------------------------------------------------------
(* Properties of the build and of merge_scanner *)

InLoop == pc \in {"while", "for", "done"}

\* C1: a pass over the pending scanners that places none of them makes the
\* build terminate with a failure.  The pending list never grows, so a pass
\* that ends with as many pending scanners as the input gave it has placed
\* none: after such a pass the loop is not entered again.
C1_NoProgressFails ==
    [][(pc = "for" /\ i = 0 /\ pending # <<>> /\ Len(pending) = Len(input) - 1)
          => pc' # "while"]_vars

\* Some known scanner, catalog rotation and translation put at least 12
\* beacons of the candidate on beacons of that known scanner.  A translation
\* that puts one beacon on another is the difference of the two.
OverlapExists(m, scanner) ==
    \E key \in DOMAIN m, r \in 1..Len(Rotations) :
        LET transformed == TransformedBeacons(scanner, Rotations[r])
        IN  \E kb \in m[key].beacons, ub \in transformed :
                Cardinality(AllOrientedBeacons(transformed, PointSub(kb, ub))
                            \cap m[key].beacons) >= 12

\* C2: completeness of the aligner: whenever a known scanner, a catalog
\* rotation and a translation with at least 12 common beacons exist for the
\* scanner the loop is about to try, merge_scanner reports a match.
C2_AlignerComplete ==
    (pc = "for" /\ i >= 1 /\ OverlapExists(map, pending[i]))
        => MergeHits(map, pending[i]) # {}

\* C3: soundness of the aligner: a merge_scanner call that returns true (the
\* scanner leaves the pending list) has stored, under a translation t, exactly
\* the whole candidate beacon set rotated by one catalog rotation and moved
\* by t, and at least 12 of those points are beacons of one scanner that was
\* in the map before the call.
C3_AlignerSound ==
    [][(pc = "for" /\ Len(pending') < Len(pending)) =>
          \E t \in DOMAIN map', r \in 1..Len(Rotations) :
              LET stored == {PointAdd(MatrixMulPoint(Rotations[r], b), t) :
                                b \in pending[i].beacons}
              IN  /\ map'[t].beacons = stored
                  /\ \A p \in DOMAIN map' \ {t} : p \in DOMAIN map /\ map'[p] = map[p]
                  /\ \E key \in DOMAIN map :
                        Cardinality(stored \cap map[key].beacons) >= 12]_vars

\* A scanner has been merged at a position other than the origin.
C3_Witness == \E p \in DOMAIN map : p # Origin /\ Cardinality(map[p].beacons) > 12

\* C4: the build returns only when the pending list is empty: no scanner is
\* left unplaced in a returned map.
C4_NoPartialMap == pc = "done" => pending = <<>>

\* The build has returned for an input of three scanners.
C4_Witness == pc = "done" /\ Len(input) >= 3

\* Every <<known key, rotation index, translation>> merge_scanner can get to
\* that passes the overlap test, whatever the order of enumeration.
PassingTriples(m, scanner) ==
    UNION {LET overlapping == OverlappingDistances(m[key], scanner)
           IN  IF PassesPrefilter(overlapping)
               THEN UNION {{<<key, r, delta>> :
                               delta \in AcceptedTranslations(
                                            m[key], scanner, Rotations[r], overlapping)} :
                           r \in 1..Len(Rotations)}
               ELSE {} :
           key \in DOMAIN m}

TripleBeacons(scanner, x) ==
    AllOrientedBeacons(TransformedBeacons(scanner, Rotations[x[2]]), x[3])

\* C5: uniqueness of placement: any two triples that pass the overlap test
\* for the scanner the loop is about to try give the same position and the
\* same global beacon set.
C5_PlacementUnique ==
    (pc = "for" /\ i >= 1) =>
        \A x, y \in PassingTriples(map, pending[i]) :
            /\ x[3] = y[3]
            /\ TripleBeacons(pending[i], x) = TripleBeacons(pending[i], y)

\* The inputs that keep the first scanner and reorder the others.
Reordered(scanners) ==
    LET n == Len(scanners) - 1
        bijections == {f \in [1..n -> 1..n] : \A a, b \in 1..n : f[a] = f[b] => a = b}
    IN  {[k \in 1..(n + 1) |-> IF k = 1 THEN scanners[1] ELSE scanners[f[k - 1] + 1]] :
            f \in bijections}

\* C6: order independence: when the build has returned, every map the build
\* can return for the same scanners with those after the first reordered has
\* the same beacons() and the same positions().
C6_OrderIndependent ==
    pc = "done" =>
        \A other \in Reordered(input) :
            \A m \in FromScanners(other) :
                Beacons(m) = Beacons(map) /\ Scanners(m) = Scanners(map)

\* C7: finality of placement: every entry of the map stays in the map, under
\* the same position and with the same beacon data, in every later state.
C7_PlacementFinal ==
    [][\A key \in DOMAIN map : key \in DOMAIN map' /\ map'[key] = map[key]]_vars

\* C8: one entry per placed scanner: the map holds 1 entry plus one for each
\* scanner removed from the pending list.
C8_OneEntryPerPlacement ==
    InLoop => Cardinality(Scanners(map)) = 1 + ((Len(input) - 1) - Len(pending))

\* C9: the entry at (0,0,0) is the first input scanner, its beacons as given.
C9_OriginIsFirstScanner ==
    InLoop => Origin \in DOMAIN map /\ map[Origin].beacons = input[1]

\* C10: global frame: every entry (p, S) of the map is an input scanner's
\* whole beacon set under one catalog rotation, moved by p, with as many
\* points as that scanner has; before the first merge the map is the first
\* scanner alone, unrotated at (0,0,0).
C10_GlobalFrame ==
    /\ \A p \in DOMAIN map :
          \E k \in 1..Len(input), r \in 1..Len(Rotations) :
              /\ map[p].beacons =
                    {PointAdd(MatrixMulPoint(Rotations[r], b), p) : b \in input[k]}
              /\ Cardinality(map[p].beacons) = Cardinality(input[k])
    /\ (InLoop /\ Len(pending) = Len(input) - 1) =>
          (DOMAIN map = {Origin} /\ map[Origin].beacons = input[1])

\* Three scanners stand in the map at three positions.
C10_Witness == pc = "done" /\ Cardinality(DOMAIN map) = 3

\* C11 as claimed: an alignment attempt (one merge_scanner call) leaves the
\* entries of the map as they were, whether or not it finds a match.
C11_AttemptLeavesMap == [][(pc = "for" /\ i >= 1) => map' = map]_vars

\* C11: an attempt that finds no match (the scanner stays pending) leaves the
\* entries of the map as they were; an attempt that finds a match writes the
\* entry under one position and leaves every other entry as it was.
C11_AttemptEffect ==
    [][(pc = "for" /\ i >= 1) =>
          IF Len(pending') = Len(pending)
          THEN map' = map
          ELSE \E t \in DOMAIN map' :
                  /\ DOMAIN map' = DOMAIN map \cup {t}
                  /\ \A p \in DOMAIN map \ {t} : map'[p] = map[p]]_vars

\* In one pass an attempt has missed (its scanner is still pending above i)
\* and another has added an entry.
C11_Witness == pc = "for" /\ i < Len(pending) /\ Cardinality(DOMAIN map) >= 2

\* C12: idempotent fusion: when the build has returned, merging any of the
\* input scanners (all of them are placed) into the returned map again
\* changes neither beacons() nor positions().
C12_IdempotentFusion ==
    pc = "done" =>
        \A k \in 1..Len(input) :
            \A m \in MergeScanner(map, IntoDistances(input[k])) :
                Beacons(m) = Beacons(map) /\ Scanners(m) = Scanners(map)

\* The inverse of a matrix of signed axes: row a of the inverse names the
\* row of the matrix that selects axis a, with that row's sign.
InverseMatrix(matrix) ==
    [a \in 1..3 |->
        LET row == CHOOSE n \in 1..3 : matrix[n][1] = a - 1
        IN  <<row - 1, matrix[row][2]>>]

\* C13: overlap symmetry: for every match merge_scanner can find for the
\* scanner the loop is about to try (known scanner, rotation R, translation
\* t), the known scanner's beacons moved by -t and rotated by the inverse of
\* R include at least 12 of the candidate's own local beacons.
C13_OverlapSymmetry ==
    (pc = "for" /\ i >= 1) =>
        \A hit \in MergeHits(map, pending[i]) :
            LET inverse == InverseMatrix(Rotations[hit[2]])
                back == {MatrixMulPoint(inverse, PointSub(b, hit[3])) :
                            b \in map[hit[1]].beacons}
            IN  Cardinality(back \cap pending[i].beacons) >= 12

\* The loop is about to try a scanner that matches under a rotation other
\* than the identity and a translation other than zero.
C13_Witness ==
    /\ pc = "for"
    /\ i >= 1
    /\ \E hit \in MergeHits(map, pending[i]) : hit[2] > 1 /\ hit[3] # Origin


----------------------------------------------------------------------------
(* One enumeration of BeaconOrientationIterator on its own *)

\* No build is running.
BuildIdle ==
    /\ input = <<>>
    /\ pending = <<>>
    /\ map = EmptyMap
    /\ i = 0
    /\ pc = "idle"
    /\ HistIdle

MaxCoord == 1

Coords == (-MaxCoord)..MaxCoord

Points == Coords \X Coords \X Coords

\* A fresh iterator, and a point the caller applies every yielded matrix to.
IterInit ==
    /\ BuildIdle
    /\ IterIdle
    /\ args \in Points
    /\ out = <<>>

\* next(): None once done; else the matrix of the state (i, j, k) is returned
\* and the state advances.  The caller multiplies its point by the matrix.
IteratorNext ==
    /\ IF IteratorDone(iter)
       THEN /\ item' = [kind |-> "None", value |-> <<>>]
            /\ UNCHANGED <<iter, yielded, out>>
       ELSE /\ item' = [kind |-> "Some", value |-> IteratorMatrix(iter)]
            /\ iter' = AdvanceState(iter)
            /\ yielded' = Append(yielded, IteratorMatrix(iter))
            /\ out' = MatrixMulPoint(IteratorMatrix(iter), args)
    /\ UNCHANGED <<build, args>>

IterSpec == IterInit /\ [][IteratorNext]_vars

\* A matrix as a map on points: a linear map is fixed by what it does to the
\* three unit vectors.
Basis == {<<1, 0, 0>>, <<0, 1, 0>>, <<0, 0, 1>>}

AsMap(matrix) == [e \in Basis |-> MatrixMulPoint(matrix, e)]

\* C14: one enumeration started with new() yields exactly 24 matrices,
\* pairwise distinct as maps on points, and then ends: the iterator is done
\* exactly when 24 matrices have been yielded, never more are yielded, and
\* next() returns None only then.
C14_Yields24Distinct ==
    /\ Len(yielded) <= 24
    /\ IteratorDone(iter) <=> Len(yielded) = 24
    /\ item.kind = "None" => IteratorDone(iter)
    /\ \A a, b \in 1..Len(yielded) :
            a # b => AsMap(yielded[a]) # AsMap(yielded[b])

C14_Witness == item.kind = "None" /\ Len(yielded) = 24 /\ out # args

\* The entry of a matrix at a row and a column, and the determinant by
\* cofactor expansion along the first row.
Entry(matrix, row, col) == IF matrix[row][1] = col - 1 THEN matrix[row][2] ELSE 0

Det(matrix) ==
    LET e(row, col) == Entry(matrix, row, col)
    IN    e(1, 1) * (e(2, 2) * e(3, 3) - e(2, 3) * e(3, 2))
        - e(1, 2) * (e(2, 1) * e(3, 3) - e(2, 3) * e(3, 1))
        + e(1, 3) * (e(2, 1) * e(3, 2) - e(2, 2) * e(3, 1))

\* C15: every matrix next() yields is a proper rotation: its three rows
\* select three different axes and its determinant is +1, so no mirror image
\* is ever yielded.
C15_ProperRotations ==
    \A n \in 1..Len(yielded) :
        /\ {yielded[n][row][1] : row \in 1..3} = {0, 1, 2}
        /\ Det(yielded[n]) = 1

C15_Witness ==
    /\ Len(yielded) = 24
    /\ \E n \in 1..24 : yielded[n][3][2] = -1 /\ yielded[n][1][1] # 0

YieldedMaps == {AsMap(yielded[n]) : n \in 1..Len(yielded)}

\* The map p -> A(B(p)) on the unit vectors, and the identity there.
Composed(A, B) == [e \in Basis |-> MatrixMulPoint(A, MatrixMulPoint(B, e))]

IdentityMap == [e \in Basis |-> e]

\* C16: the matrices of one whole enumeration are closed under composition
\* and under inverse: the composition of any two is the map of a yielded
\* matrix, and every yielded matrix has a yielded matrix that undoes it.
C16_Group ==
    item.kind = "None" =>
        /\ \A a, b \in 1..Len(yielded) :
                Composed(yielded[a], yielded[b]) \in YieldedMaps
        /\ \A a \in 1..Len(yielded) :
                \E b \in 1..Len(yielded) :
                    Composed(yielded[b], yielded[a]) = IdentityMap

C16_Witness ==
    /\ item.kind = "None"
    /\ \E a, b \in 1..Len(yielded) :
            /\ a # b
            /\ Composed(yielded[a], yielded[b]) # Composed(yielded[b], yielded[a])
            /\ Composed(yielded[a], yielded[a]) # IdentityMap

----------------------------------------------------------------------------
(* A pair of points oriented and translated on its own *)

Octant == (0..MaxCoord) \X (0..MaxCoord) \X (0..MaxCoord)

Translations == {Origin, <<1, -2, 3>>, <<-68, 1246, 43>>}

\* Two points, one anywhere in the cube and one in its non-negative octant
\* (their differences take every sign), and a translation.
DistInit ==
    /\ BuildIdle
    /\ IterIdle
    /\ args \in [p : Points, q : Octant, t : Translations]
    /\ out = <<>>

\* Both points under a matrix of the enumeration, then translated, as
\* merge_scanner orients a beacon: &(&matrix * beacon) + &delta.
Orient ==
    /\ out = <<>>
    /\ \E r \in 1..Len(Rotations) :
          out' = [r |-> r,
                  p |-> PointAdd(MatrixMulPoint(Rotations[r], args.p), args.t),
                  q |-> PointAdd(MatrixMulPoint(Rotations[r], args.q), args.t)]
    /\ UNCHANGED <<build, iter, yielded, item, args>>

DistSpec == DistInit /\ [][Orient]_vars

\* C17: distance invariance: for points p and q, every matrix R of the
\* enumeration and every translation t, the distance between R(p)+t and
\* R(q)+t is the distance between p and q.
C17_DistanceInvariant ==
    DOMAIN out # {} => Distance(out.p, out.q) = Distance(args.p, args.q)

C17_Witness ==
    /\ DOMAIN out # {}
    /\ out.r > 1
    /\ args.t # Origin
    /\ Distance(args.p, args.q) = 3
    /\ PointSub(out.p, out.q) # PointSub(args.p, args.q)

----------------------------------------------------------------------------
(* into_distances on its own *)

MaxBeacons == 4

\* Points with repeated distances among them: four on a line one apart, and
\* three off the line.
IndexPool ==
    {<<0, 0, 0>>, <<1, 0, 0>>, <<2, 0, 0>>, <<3, 0, 0>>,
     <<0, 2, 0>>, <<1, 1, 1>>, <<5, -3, 2>>}

\* A scanner's beacon set, the empty set and one-beacon sets included.
IndexInit ==
    /\ BuildIdle
    /\ IterIdle
    /\ args \in {S \in SUBSET IndexPool : Cardinality(S) <= MaxBeacons}
    /\ out = <<>>

IntoDistancesCall ==
    /\ out = <<>>
    /\ out' = IntoDistances(args)
    /\ UNCHANGED <<build, iter, yielded, item, args>>

IndexSpec == IndexInit /\ [][IntoDistancesCall]_vars

RECURSIVE BagSize(_, _)
BagSize(bag, S) ==
    IF S = {} THEN 0
    ELSE LET x == CHOOSE y \in S : TRUE
         IN  bag[x] + BagSize(bag, S \ {x})

RECURSIVE TotalSize(_, _)
TotalSize(distances, D) ==
    IF D = {} THEN 0
    ELSE LET d == CHOOSE e \in D : TRUE
         IN  BagSize(distances[d], DOMAIN distances[d]) + TotalSize(distances, D \ {d})

\* C18: into_distances keeps the beacon set; a distance is a key exactly when
\* two different beacons are that far apart; under a key each beacon occurs
\* once per pair at that distance it belongs to, and no other point occurs;
\* the lists hold n*(n-1) = 2*C(n,2) points in all, and the index is empty
\* for fewer than two beacons.
C18_IndexContract ==
    DOMAIN out # {} =>
        LET n == Cardinality(args)
            keys == DOMAIN out.distances
        IN  /\ out.beacons = args
            /\ keys = {Distance(pr[1], pr[2]) : pr \in {x \in args \X args : x[1] # x[2]}}
            /\ \A d \in keys :
                    /\ DOMAIN out.distances[d] \subseteq args
                    /\ \A p \in args :
                          (IF p \in DOMAIN out.distances[d] THEN out.distances[d][p] ELSE 0)
                              = Cardinality({b \in args \ {p} : Distance(p, b) = d})
            /\ TotalSize(out.distances, keys) = n * (n - 1)
            /\ n < 2 => keys = {}

C18_Witness ==
    /\ DOMAIN out # {}
    /\ Cardinality(args) = 4
    /\ \E d \in DOMAIN out.distances : \E p \in DOMAIN out.distances[d] :
            out.distances[d][p] = 2

----------------------------------------------------------------------------
(* solve_a and solve_b on the map from_scanners returns *)

\* global_map.beacons().len()
SolveA(m) == Cardinality(Beacons(m))

\* Option: None, or Some(value).
None == [some |-> FALSE]

Some(value) == [some |-> TRUE, value |-> value]

\* A min() in the place of Iterator::max.
IterMin(S) ==
    IF S = {} THEN None
    ELSE Some(CHOOSE x \in S : \A y \in S : x <= y)

\* Iterator::max: None for an empty iterator.
IterMax(S) ==
    IF S = {} THEN None
    ELSE Some(CHOOSE x \in S : \A y \in S : y <= x)

\* Option -> AocResult: Some(v) is Ok(v), None is an Err.
IntoAocResult(option) ==
    IF option.some THEN [ok |-> TRUE, value |-> option.value]
    ELSE [ok |-> FALSE]

\* The distances of scanners().iter().tuple_combinations(), their max, and
\* the ? on into_aoc_result().
SolveB(m) ==
    IntoAocResult(IterMax({PairDistance(pair) : pair \in TupleCombinations(Scanners(m))}))

\* C19: for an input of one scanner the build makes no alignment attempt and
\* does not fail; it returns a map with one entry, the origin holding that
\* scanner's beacons unchanged, and solve_a returns that scanner's beacon count.
C19_SingleScanner ==
    Len(input) = 1 =>
        /\ pc \in {"start", "while", "done"}
        /\ pending = <<>>
        /\ pc = "done" =>
              /\ DOMAIN map = {Origin}
              /\ map[Origin].beacons = input[1]
              /\ SolveA(map) = Cardinality(input[1])

C19_Witness == pc = "done" /\ Len(input) = 1 /\ SolveA(map) = 14

\* C20: on a returned map with two or more positions solve_b returns a
\* distance that some pair of different positions has and no pair exceeds;
\* on a map with a single position, as for a single-scanner input, solve_b
\* returns an error.
C20_SolveB ==
    pc = "done" =>
        LET positions == DOMAIN map
            result == SolveB(map)
        IN  /\ Len(input) = 1 => Cardinality(positions) = 1
            /\ IF Cardinality(positions) >= 2
               THEN /\ result.ok
                    /\ \E a, b \in positions : a # b /\ Distance(a, b) = result.value
                    /\ \A a, b \in positions : Distance(a, b) <= result.value
               ELSE ~result.ok

C20_Witness ==
    /\ pc = "done"
    /\ Cardinality(DOMAIN map) = 3
    /\ SolveB(map).ok
    /\ \E a, b \in DOMAIN map : a # b /\ Distance(a, b) < SolveB(map).value

----------------------------------------------------------------------------
(* Passes of the merge loop *)

\* The step is an alignment attempt, and it placed its scanner.
Attempt == pc = "for" /\ i >= 1

Placed == Len(pending') < Len(pending)

\* C23 as claimed: an attempt places its scanner exactly when the scanner
\* matches the map as it was at the start of the pass.
C23_PassSnapshot ==
    [][Attempt => (Placed <=> MergeHits(snapshot, pending[i]) # {})]_vars

\* C23: an attempt places its scanner exactly when the scanner matches the
\* map as it is at the time of the attempt, which holds the scanners placed
\* earlier in the same pass.
C23_CurrentMap ==
    [][Attempt => (Placed <=> MergeHits(map, pending[i]) # {})]_vars

C23_Witness ==
    /\ pc = "for" /\ i >= 1
    /\ map # snapshot
    /\ MergeHits(map, pending[i]) # {}
    /\ MergeHits(snapshot, pending[i]) = {}

Range(s) == {s[k] : k \in 1..Len(s)}

\* C26: within one pass every scanner pending at the start of the pass is
\* attempted exactly once: the index stays within the pending list, no
\* scanner is attempted twice, the scanners still to be attempted are the
\* ones below the index, and when the pass ends every scanner that was
\* pending at its start has been attempted.
C26_EachAttemptedOnce ==
    pc = "for" =>
        /\ i \in 0..Len(pending)
        /\ Len(ids) = Len(pending)
        /\ Cardinality(Range(attempted)) = Len(attempted)
        /\ Range(attempted) \subseteq Range(started)
        /\ {ids[k] : k \in 1..i} = Range(started) \ Range(attempted)
        /\ i = 0 => Range(attempted) = Range(started)

\* A pass in which swap_remove moved an attempted scanner into the place of
\* a placed one, at its end.
C26_Witness ==
    /\ pc = "for" /\ i = 0
    /\ Len(started) = 2
    /\ Len(ids) = 1
    /\ ids[1] = started[2]

\* C27: the pending list never grows and a successful merge shrinks it by
\* exactly one; while every completed pass has placed a scanner, the passes
\* completed are no more than the merges made; and the build returns only
\* with all n - 1 merges made, after at most n - 1 passes, every one of
\* which placed a scanner.
C27_ProgressTerminates ==
    [][/\ (InLoop /\ pc # "done") => Len(pending') <= Len(pending)
       /\ (Attempt /\ map' # map) => Len(pending') = Len(pending) - 1
       /\ (InLoop' /\ ~stalled') =>
              /\ passes' <= Len(input) - 1 - Len(pending')
              /\ (pc' = "while" /\ passes' = Len(input) - 1) => pending' = <<>>
       /\ pc' = "done" =>
              /\ ~stalled'
              /\ Len(pending') = 0
              /\ passes' <= Len(input) - 1]_vars

C27_Witness == pc = "done" /\ Len(input) = 3 /\ passes = 2

\* C28: a merge_scanner call that returns false leaves the map and the
\* pending scanners as they were; a call that returns true writes one key t,
\* under it the candidate's beacons rotated by a matrix of the enumeration and
\* translated by t, leaves the entry under every other key as it was, and
\* leaves the other pending scanners, which the candidate's removal only
\* moves, as they were.
C28_MergeFrame ==
    [][Attempt =>
          IF map' = map /\ ~Placed
          THEN pending' = pending
          ELSE /\ Placed
               /\ \A k \in 1..Len(pending') :
                      pending'[k] = pending[IF k = i THEN Len(pending) ELSE k]
               /\ \E t \in DOMAIN map' :
                      /\ DOMAIN map' = DOMAIN map \cup {t}
                      /\ \A p \in DOMAIN map \ {t} : map'[p] = map[p]
                      /\ \E r \in 1..Len(Rotations) :
                            map'[t] = IntoDistances(
                                {PointAdd(MatrixMulPoint(Rotations[r], b), t) :
                                    b \in pending[i].beacons})]_vars

C28_Witness ==
    /\ pc = "for"
    /\ Len(attempted) = 2
    /\ Len(ids) = 1
    /\ Cardinality(DOMAIN map) = 2

\* The distance keys a known scanner and a candidate have in common.
SharedKeys(known, scanner) == DOMAIN known.distances \cap DOMAIN scanner.distances

\* C24: the threshold is combinations(12, 2) = 66; in an attempt a known
\* scanner that shares fewer than 66 distance keys with the candidate
\* produces no match, whatever its beacons are, and a candidate is placed
\* only when some known scanner shares at least 66 keys with it.
C24_Prefilter ==
    [][Attempt =>
          /\ DISTANCE_OVERLAPS = 66
          /\ \A key \in DOMAIN map :
                Cardinality(SharedKeys(map[key], pending[i])) < 66
                    => KnownScannerHits(map[key], pending[i]) = {}
          /\ Placed =>
                \E key \in DOMAIN map :
                    Cardinality(SharedKeys(map[key], pending[i])) >= 66]_vars

\* An attempt has failed against a known scanner that holds twelve of the
\* candidate's beacons as they are and shares fewer than 66 keys with it.
C24_Witness ==
    /\ pc = "for" /\ i = 0
    /\ Len(attempted) = 1 /\ Len(pending) = 1
    /\ Cardinality(pending[1].beacons \cap map[Origin].beacons) >= 12
    /\ Cardinality(SharedKeys(map[Origin], pending[1])) < 66

\* The candidate's beacons that a rotation (the beacons given rotated) and a
\* translation put on beacons of a known scanner.
Landing(known, rotated, t) == {c \in rotated : PointAdd(c, t) \in known.beacons}

\* C25: in an attempt, for a known scanner that shares at least 66 distance
\* keys with the candidate, every matrix R of the enumeration and every
\* translation t that puts at least 12 of the candidate's beacons on beacons
\* of the known scanner: t is among the translations merge_scanner forms for
\* R under the shared keys, and the attempt places the candidate.  (A t that
\* puts any beacon on a known one is a difference known - R(candidate).)
C25_SearchExhaustive ==
    [][Attempt =>
          \A key \in DOMAIN map :
              LET shared == SharedKeys(map[key], pending[i])
              IN  Cardinality(shared) >= 66 =>
                    \A r \in 1..Len(Rotations) :
                        LET rotated == {MatrixMulPoint(Rotations[r], c) : c \in pending[i].beacons}
                        IN  \A t \in {PointSub(k, c) : k \in map[key].beacons, c \in rotated} :
                                Cardinality(Landing(map[key], rotated, t)) >= 12 =>
                                    /\ t \in PotentialTranslations(map[key], pending[i],
                                                                   Rotations[r], shared)
                                    /\ Placed]_vars

\* An attempt is due on a candidate that a matrix other than the first and
\* a translation put on a known scanner with beacons to spare.
C25_Witness ==
    /\ pc = "for" /\ i >= 1
    /\ Cardinality(pending[i].beacons) > 12
    /\ \E key \in DOMAIN map :
          /\ Cardinality(SharedKeys(map[key], pending[i])) >= 66
          /\ \E r \in 2..Len(Rotations) :
                LET rotated == {MatrixMulPoint(Rotations[r], c) : c \in pending[i].beacons}
                IN  \E t \in {PointSub(k, c) : k \in map[key].beacons, c \in rotated} :
                        Cardinality(Landing(map[key], rotated, t)) >= 12

----------------------------------------------------------------------------
(* The states of BeaconOrientationIterator *)

\* The place of a state (i, j, k) in the order i, then j with j = i left
\* out, then k: 0..23 for the states that yield, 24 for the done state.
Rank(it) ==
    IF it.i = 3 THEN 24
    ELSE 8 * it.i + 4 * (IF it.j > it.i THEN it.j - 1 ELSE it.j) + it.k

\* C29: in every state reached from new() by next() either i = 3, or i and
\* j are different and in 0..2 and k is in 0..3; the state reached after n
\* yields is the one of rank n, so each of the 24 states that yield is
\* visited exactly once; and a next() on the done state returns None and
\* leaves the state as it is.
C29_IteratorStates ==
    [][/\ iter.i = 3 \/ (iter.i \in 0..2 /\ iter.j \in 0..2 /\ iter.i # iter.j /\ iter.k \in 0..3)
       /\ iter'.i = 3 \/ (iter'.i \in 0..2 /\ iter'.j \in 0..2 /\ iter'.i # iter'.j /\ iter'.k \in 0..3)
       /\ Rank(iter) = Len(yielded)
       /\ Rank(iter') = Len(yielded')
       /\ iter.i = 3 => (iter' = iter /\ yielded' = yielded /\ item'.kind = "None")]_vars

C29_Witness == iter = [i |-> 3, j |-> 0, k |-> 0] /\ item.kind = "None"

----------------------------------------------------------------------------
(* parse_input, and solve_a / solve_b from the input text to the build *)

\* The input text is the sequence of its lines (input.lines()); a line is
\* the sequence of its characters.
Digits == <<"0", "1", "2", "3", "4", "5", "6", "7", "8", "9">>

IsDigit(c) == \E n \in 1..10 : Digits[n] = c

DigitValue(c) == (CHOOSE n \in 1..10 : Digits[n] = c) - 1

I32_MAX == 2147483647

I32_MIN == -I32_MAX - 1

\* The digits of str::parse::<i32>, most significant first, with the checked
\* multiply and add (subtract for a negative number); the tests are written
\* so that no intermediate value leaves the i32 range.
RECURSIVE Accumulate(_, _, _)
Accumulate(digits, acc, negative) ==
    IF digits = <<>> THEN [ok |-> TRUE, value |-> acc]
    ELSE IF ~IsDigit(Head(digits)) THEN [ok |-> FALSE]
    ELSE LET d == DigitValue(Head(digits))
         IN  IF negative
             THEN IF acc < (I32_MIN + d + 9) \div 10 THEN [ok |-> FALSE]
                  ELSE Accumulate(Tail(digits), acc * 10 - d, negative)
             ELSE IF acc > (I32_MAX - d) \div 10 THEN [ok |-> FALSE]
                  ELSE Accumulate(Tail(digits), acc * 10 + d, negative)

\* num.parse::<i32>(): an optional sign, then at least one digit, nothing else.
ParseI32(field) ==
    IF field = <<>> THEN [ok |-> FALSE]
    ELSE LET signed == field[1] \in {"+", "-"}
             digits == IF signed THEN Tail(field) ELSE field
         IN  IF digits = <<>> THEN [ok |-> FALSE]
             ELSE Accumulate(digits, 0, field[1] = "-")

\* line.split(','): the pieces between the commas, empty ones included.
RECURSIVE SplitComma(_)
SplitComma(line) ==
    IF \A n \in 1..Len(line) : line[n] # ","
    THEN <<line>>
    ELSE LET n == CHOOSE m \in 1..Len(line) :
                      line[m] = "," /\ \A k \in 1..(m - 1) : line[k] # ","
         IN  <<SubSeq(line, 1, n - 1)>> \o SplitComma(SubSeq(line, n + 1, Len(line)))

StartsWithDashes(line) ==
    Len(line) >= 3 /\ line[1] = "-" /\ line[2] = "-" /\ line[3] = "-"

\* The three nums.next() of a beacon line: each needs a piece to be there
\* and to parse; pieces after the third are never looked at.
ParsePoint(line) ==
    LET nums == SplitComma(line)
    IN  IF Len(nums) < 3 THEN [ok |-> FALSE]
        ELSE LET x == ParseI32(nums[1])
                 y == ParseI32(nums[2])
                 z == ParseI32(nums[3])
             IN  IF x.ok /\ y.ok /\ z.ok
                 THEN [ok |-> TRUE, value |-> <<x.value, y.value, z.value>>]
                 ELSE [ok |-> FALSE]

\* The for loop of parse_input from line n on, scans being the Vec so far.
RECURSIVE ParseLines(_, _, _)
ParseLines(text, n, scans) ==
    IF n > Len(text) THEN [ok |-> TRUE, value |-> scans]
    ELSE IF StartsWithDashes(text[n])
         THEN ParseLines(text, n + 1, Append(scans, {}))
    ELSE IF text[n] # <<>>
         THEN IF scans = <<>> THEN [ok |-> FALSE]
              ELSE LET point == ParsePoint(text[n])
                   IN  IF ~point.ok THEN [ok |-> FALSE]
                       ELSE ParseLines(text, n + 1,
                                [scans EXCEPT ![Len(scans)] = @ \cup {point.value}])
    ELSE ParseLines(text, n + 1, scans)

ParseInput(text) == ParseLines(text, 1, <<>>)

MaxLines == 3

\* Lines the texts are made of: a scanner header, an empty line, beacon lines
\* that are three integers (one of them past the i32 range) and beacon lines
\* that are not.
Header == <<"-", "-", "-", " ", "s", "0">>

LinePool ==
    {Header,
     <<>>,
     <<"1", ",", "2", ",", "3">>,
     <<"-", "4", ",", "+", "5", ",", "6">>,
     <<"2", "1", "4", "7", "4", "8", "3", "6", "4", "8", ",", "0", ",", "0">>,
     <<"1", ",", "2">>,
     <<"1", ",", "x", ",", "3">>,
     <<"-", ",", "2", ",", "3">>,
     <<"1", ",", "2", ",", "3", ",", "4">>,
     <<"1", ",", "2", ",", "3", ",", "x">>}

Texts == UNION {[1..n -> LinePool] : n \in 0..MaxLines}

ParseInit ==
    /\ BuildIdle
    /\ IterIdle
    /\ args \in Texts
    /\ out = <<>>

\* let scanners = parse_input(input)?; GlobalMap::from_scanners(scanners):
\* an Err of parse_input is returned at once, before any map exists.
ParseInputCall ==
    /\ pc = "idle"
    /\ out' = ParseInput(args)
    /\ IF out'.ok
       THEN input' = out'.value /\ pc' = "start"
       ELSE input' = input /\ pc' = "error"
    /\ UNCHANGED <<pending, map, i, hist, iter, yielded, item, args>>

ParseSpec == ParseInit /\ [][ParseInputCall \/ Next]_vars

\* A beacon line: not empty and not starting with '---'.
IsBeaconLine(line) == line # <<>> /\ ~StartsWithDashes(line)

\* An optional sign followed by one or more digits.
IsInteger(field) ==
    LET digits == IF field # <<>> /\ field[1] \in {"+", "-"} THEN Tail(field) ELSE field
    IN  digits # <<>> /\ \A n \in 1..Len(digits) : IsDigit(digits[n])

\* Exactly three comma-separated signed decimal integers.
ThreeIntegers(line) ==
    LET commas == {n \in 1..Len(line) : line[n] = ","}
    IN  /\ Cardinality(commas) = 2
        /\ LET a == CHOOSE n \in commas : \A m \in commas : n <= m
               b == CHOOSE n \in commas : \A m \in commas : m <= n
           IN  /\ IsInteger(SubSeq(line, 1, a - 1))
               /\ IsInteger(SubSeq(line, a + 1, b - 1))
               /\ IsInteger(SubSeq(line, b + 1, Len(line)))

BadText(text) ==
    \E n \in 1..Len(text) :
        /\ IsBeaconLine(text[n])
        /\ \/ ~ThreeIntegers(text[n])
           \/ \A m \in 1..(n - 1) : ~StartsWithDashes(text[m])

\* C21: for a text in which some beacon line is not exactly three
\* comma-separated signed decimal integers, or comes before the first
\* scanner header, parse_input reports an error and no map is built.
C21_BadTextRejected ==
    (pc # "idle" /\ BadText(args)) => (~out.ok /\ pc = "error" /\ map = EmptyMap)

\* C30: for a text without a scanner header that parse_input accepts, the
\* build neither returns (an empty map or any other) nor ends with an error
\* value: from_scanners is entered with an empty Vec and panics, no map made.
C30_EmptyInputPanics ==
    (pc # "idle" /\ \A n \in 1..Len(args) : args[n] = <<>>) =>
        /\ out.ok /\ out.value = <<>> /\ input = <<>>
        /\ pc \in {"start", "panic"}
        /\ map = EmptyMap

C30_Witness == pc = "panic" /\ Len(args) >= 1

====
